---- MODULE Spec2Model ----
(***************************************************************************)
(* The resilient request pipeline of the 4Runr Gateway Python SDK          *)
(* (sdk-py/runrgateway): error classification (errors.py), the retry       *)
(* policy and loop (utils/retry.py), correlation ids (utils/correlation.py)*)
(* and the client operations built on them (client.py).                    *)
(*                                                                         *)
(* Conventions.  Text (error messages, header values) is a sequence of     *)
(* one-character strings, so that lower(), substring search and int() are  *)
(* computed rather than assumed.  Durations are microseconds, the clock is *)
(* in seconds (time.time()).  Python's None is the string "None" where the *)
(* value is a name, NoneText where it is text and NoneInt where it is a    *)
(* number.                                                                 *)
(***************************************************************************)
EXTENDS Integers, Sequences, FiniteSets, TLC

VARIABLES
    now,              \* time.time(), in seconds
    current_intent,   \* GatewayClient.current_intent
    task,             \* one record per asyncio task using the client
    wire,             \* per task: the HTTP requests of its transaction in
                      \* progress (one _make_request call), in the order sent
    fn_in,            \* pure-function harness: the arguments drawn
    fn_out            \* pure-function harness: the results computed

vars == <<now, current_intent, task, wire, fn_in, fn_out>>

(***************************************************************************)
(* Bounds of the model.                                                    *)
(***************************************************************************)
\* with_retry called directly: options.max_retries ranges over 0..MaxRetriesArg
MaxRetriesArg == 3
\* pure calculate_delay: attempt indices 0..MaxAttemptArg
MaxAttemptArg == 4
\* the clock may advance this many ticks of TickSeconds
MaxTicks == 1
\* random.choices(...) of generate_correlation_id: this many distinct outcomes
NumRandomStr == 2
\* random.random() is sampled at k / RandomDen, k in 0..RandomDen-1 (never 1.0)
RandomDen == 4

(***************************************************************************)
(* Program constants.                                                      *)
(***************************************************************************)
\* RetryOptions defaults (seconds in the source, microseconds here)
DefaultMaxRetries == 3
DefaultBaseDelay == 1000000
DefaultMaxDelay == 10000000
\* proxy(): 24 * 60 * 60 * 1000
TokenMaxAgeMs == 24 * 60 * 60 * 1000

NoneInt == 0 - 1
None == "None"
\* None where text is expected (no text is this one-element sequence)
NoneText == <<None>>

Min(a, b) == IF a <= b THEN a ELSE b
Max(a, b) == IF a >= b THEN a ELSE b

RECURSIVE Pow2(_)
Pow2(n) == IF n = 0 THEN 1 ELSE 2 * Pow2(n - 1)

(***************************************************************************)
(* Text.                                                                   *)
(***************************************************************************)
UpperChars == <<"A","B","C","D","E","F","G","H","I","J","K","L","M",
                "N","O","P","Q","R","S","T","U","V","W","X","Y","Z">>
LowerChars == <<"a","b","c","d","e","f","g","h","i","j","k","l","m",
                "n","o","p","q","r","s","t","u","v","w","x","y","z">>
DigitChars == <<"0","1","2","3","4","5","6","7","8","9">>

\* str.lower()
lower(s) ==
    [i \in DOMAIN s |->
        IF \E k \in DOMAIN UpperChars : UpperChars[k] = s[i]
        THEN LowerChars[CHOOSE k \in DOMAIN UpperChars : UpperChars[k] = s[i]]
        ELSE s[i]]

\* the Python expression  sub in s
Contains(s, sub) ==
    \E i \in 1..(Len(s) - Len(sub) + 1) : SubSeq(s, i, i + Len(sub) - 1) = sub

IsDigit(c) == \E k \in DOMAIN DigitChars : DigitChars[k] = c
DigitVal(c) == (CHOOSE k \in DOMAIN DigitChars : DigitChars[k] = c) - 1

\* int(s) accepts this text (decimal digits; the signs, blanks and
\* underscores int() also accepts do not occur in the header values drawn)
IntParses(s) == Len(s) > 0 /\ \A i \in DOMAIN s : IsDigit(s[i])

RECURSIVE IntOf(_)
IntOf(s) ==
    IF Len(s) = 0 THEN 0
    ELSE 10 * IntOf(SubSeq(s, 1, Len(s) - 1)) + DigitVal(s[Len(s)])

MsgScope == <<"s","c","o","p","e"," ","e","x","c","e","e","d","e","d">>
MsgPolicyUpper == <<"P","O","L","I","C","Y"," ","d","e","n","y">>
MsgBad == <<"b","a","d"," ","r","e","q","u","e","s","t">>
MsgScop == <<"s","c","o","p"," ","p","o","l","i","c">>
MsgUnknown == <<"U","n","k","n","o","w","n"," ","e","r","r","o","r">>
MsgTokenOld == <<"T","o","k","e","n"," ","i","s"," ","t","o","o"," ","o","l","d">>
MsgNetwork == <<"N","e","t","w","o","r","k"," ","e","r","r","o","r",":"," ">>
MsgHttp(status_code) == <<"H","T","T","P"," ", ToString(status_code)>>

(***************************************************************************)
(* errors.py                                                               *)
(***************************************************************************)
\* An exception object.  kind is the class; retry_after exists on
\* GatewayRateLimitError only and is NoneInt elsewhere; original_error exists
\* on GatewayNetworkError only and is None elsewhere.
Exc(kind, message, status_code, code, retry_after) ==
    [kind |-> kind, message |-> message, status_code |-> status_code,
     code |-> code, retry_after |-> retry_after, original_error |-> None]

GatewayError(message, status_code, code) ==
    Exc("GatewayError", message, status_code, code, NoneInt)
GatewayAuthError(message, status_code) ==
    Exc("GatewayAuthError", message, status_code, "AUTH_ERROR", NoneInt)
GatewayPolicyError(message, status_code) ==
    Exc("GatewayPolicyError", message, status_code, "POLICY_ERROR", NoneInt)
GatewayRateLimitError(message, retry_after, status_code) ==
    Exc("GatewayRateLimitError", message, status_code, "RATE_LIMIT_ERROR", retry_after)
GatewayUpstreamError(message, status_code) ==
    Exc("GatewayUpstreamError", message, status_code, "UPSTREAM_ERROR", NoneInt)
GatewayNetworkError(message, original_error) ==
    [Exc("GatewayNetworkError", message, NoneInt, "NETWORK_ERROR", NoneInt)
        EXCEPT !.original_error = original_error]
GatewayTokenError(message, status_code) ==
    Exc("GatewayTokenError", message, status_code, "TOKEN_ERROR", NoneInt)
\* what int() raises on text that is no integer: not a GatewayError
ValueError == Exc("ValueError", <<>>, NoneInt, None, NoneInt)
\* what response.json() raises on a body that is not JSON: not a GatewayError
JSONDecodeError == Exc("JSONDecodeError", <<>>, NoneInt, None, NoneInt)

GatewayErrorKinds ==
    {"GatewayError", "GatewayAuthError", "GatewayPolicyError", "GatewayRateLimitError",
     "GatewayUpstreamError", "GatewayNetworkError", "GatewayTokenError"}
\* isinstance(error, GatewayError)
IsGatewayError(error) == error.kind \in GatewayErrorKinds

\* create_error_from_response matching "policy" and "scope" without lower()
create_error_from_response_case(status_code, error_message, retry_after) ==
    IF status_code \in {401, 403} THEN
        GatewayAuthError(error_message, status_code)
    ELSE IF status_code = 429 THEN
        IF retry_after # NoneText /\ Len(retry_after) > 0 THEN
            IF IntParses(retry_after)
            THEN GatewayRateLimitError(error_message, IntOf(retry_after), status_code)
            ELSE ValueError
        ELSE GatewayRateLimitError(error_message, NoneInt, status_code)
    ELSE IF status_code = 400 THEN
        IF Contains(error_message, <<"p","o","l","i","c","y">>)
           \/ Contains(error_message, <<"s","c","o","p","e">>)
        THEN GatewayPolicyError(error_message, status_code)
        ELSE GatewayError(error_message, status_code, None)
    ELSE IF status_code \in {502, 503, 504} THEN
        GatewayUpstreamError(error_message, status_code)
    ELSE
        GatewayError(error_message, status_code, None)

\* create_error_from_response(status_code, error_message, retry_after): the
\* exception it returns, or the exception it raises itself (retry_after is a
\* header value: NoneText or text).
create_error_from_response(status_code, error_message, retry_after) ==
    IF status_code \in {401, 403} THEN
        GatewayAuthError(error_message, status_code)
    ELSE IF status_code = 429 THEN
        IF retry_after # NoneText /\ Len(retry_after) > 0 THEN
            IF IntParses(retry_after)
            THEN GatewayRateLimitError(error_message, IntOf(retry_after), status_code)
            ELSE ValueError
        ELSE GatewayRateLimitError(error_message, NoneInt, status_code)
    ELSE IF status_code = 400 THEN
        IF Contains(lower(error_message), <<"p","o","l","i","c","y">>)
           \/ Contains(lower(error_message), <<"s","c","o","p","e">>)
        THEN GatewayPolicyError(error_message, status_code)
        ELSE GatewayError(error_message, status_code, None)
    ELSE IF status_code \in {502, 503, 504} THEN
        GatewayUpstreamError(error_message, status_code)
    ELSE
        GatewayError(error_message, status_code, None)

(***************************************************************************)
(* utils/retry.py                                                          *)
(***************************************************************************)
RetryOptions(max_retries, base_delay, max_delay, jitter) ==
    [max_retries |-> max_retries, base_delay |-> base_delay,
     max_delay |-> max_delay, jitter |-> jitter]

DefaultOptions ==
    RetryOptions(DefaultMaxRetries, DefaultBaseDelay, DefaultMaxDelay, TRUE)

\* is_retryable_error falling through to True
is_retryable_error_default_true(error) ==
    IF error.kind = "GatewayRateLimitError" THEN FALSE
    ELSE TRUE

\* is_retryable_error with status_code > 500
is_retryable_error_above_500(error) ==
    IF error.kind = "GatewayRateLimitError" THEN FALSE
    ELSE IF error.code = "NETWORK_ERROR" THEN TRUE
    ELSE IF error.kind = "GatewayUpstreamError" THEN TRUE
    ELSE IF error.status_code # NoneInt /\ error.status_code # 0
            /\ error.status_code > 500 THEN TRUE
    ELSE FALSE

is_retryable_error(error) ==
    IF error.kind = "GatewayRateLimitError" THEN FALSE
    ELSE IF error.code = "NETWORK_ERROR" THEN TRUE
    ELSE IF error.kind = "GatewayUpstreamError" THEN TRUE
    ELSE IF error.status_code # NoneInt /\ error.status_code # 0
            /\ error.status_code >= 500 THEN TRUE
    ELSE FALSE

\* calculate_delay without the max_delay cap
calculate_delay_uncapped(attempt, options, rnd) ==
    LET delay == options.base_delay * Pow2(attempt)
    IN  IF options.jitter
        THEN Max(0, delay + (delay * (2 * rnd - RandomDen)) \div (8 * RandomDen))
        ELSE delay

\* calculate_delay from the index of the attempt to come
calculate_delay_next_index(attempt, options, rnd) ==
    LET delay == Min(options.base_delay * Pow2(attempt + 1), options.max_delay)
    IN  IF options.jitter
        THEN Max(0, delay + (delay * (2 * rnd - RandomDen)) \div (8 * RandomDen))
        ELSE delay

\* calculate_delay(attempt, options); rnd is the numerator of random.random().
\* jitter = delay * 0.25 * (random - 0.5) = delay * (2 rnd - RandomDen) / (8 RandomDen)
calculate_delay(attempt, options, rnd) ==
    LET delay == Min(options.base_delay * Pow2(attempt), options.max_delay)
    IN  IF options.jitter
        THEN Max(0, delay + (delay * (2 * rnd - RandomDen)) \div (8 * RandomDen))
        ELSE delay

NoError == Exc(None, <<>>, NoneInt, None, NoneInt)

(***************************************************************************)
(* utils/correlation.py                                                    *)
(***************************************************************************)
\* generate_correlation_id(): f"req_{int(time.time() * 1000)}_{random_str}",
\* rnd standing for the nine random characters
generate_correlation_id(rnd) == [timestamp |-> now * 1000, random_str |-> rnd]
NoCorrelationId == [timestamp |-> NoneInt, random_str |-> NoneInt]

(***************************************************************************)
(* Capability tokens, as _get_token_age reads them: the number of          *)
(* dot-separated parts, what the second part decodes to, and the iat       *)
(* claim (seconds) when the payload is a JSON object with a numeric iat.   *)
(***************************************************************************)
Token(parts, payload, iat) == [parts |-> parts, payload |-> payload, iat |-> iat]

NowStart == 25 * 60 * 60
TickSeconds == 60 * 60

\* issued at NowStart
TokFresh == Token(3, "json_iat", NowStart)
\* exactly 24 hours old at NowStart, older after a tick
TokEdge == Token(2, "json_iat", NowStart - 24 * 60 * 60)
\* 25 hours old at NowStart
TokStale == Token(3, "json_iat", 0)
\* no dot in it
TokOpaque == Token(1, "none", NoneInt)
\* second part is not base64 of JSON
TokNotJson == Token(3, "not_json", NoneInt)
\* JSON payload without iat
TokNoIat == Token(3, "json_no_iat", NoneInt)
\* JSON payload whose iat is text: the subtraction raises TypeError
TokIatText == Token(3, "json_iat_text", NoneInt)
\* None or "": no token
NoToken == Token(0, "none", NoneInt)

Tokens == {TokFresh, TokEdge, TokStale, TokOpaque, TokNotJson, TokNoIat, TokIatText}
\* what a /api/generate-token response may hold as agent_token
ServerTokens == {TokFresh, TokStale, TokOpaque}

\* the iat a token embeds is more than 24 hours before the clock value t
Stale(token, t) ==
    token.payload = "json_iat" /\ (t - token.iat) * 1000 > TokenMaxAgeMs

\* _get_token_age returning seconds
_get_token_age_seconds(token) ==
    IF token.parts >= 2 /\ token.payload = "json_iat"
    THEN now - token.iat
    ELSE 0

\* _get_token_age taking a token it cannot decode to be as old as the clock
_get_token_age_undecodable_old(token) ==
    IF token.parts >= 2 /\ token.payload = "json_iat"
    THEN now * 1000 - token.iat * 1000
    ELSE now * 1000

\* GatewayClient._get_token_age (milliseconds)
_get_token_age(token) ==
    IF token.parts >= 2 /\ token.payload = "json_iat"
    THEN now * 1000 - token.iat * 1000
    ELSE 0

(***************************************************************************)
(* What the transport answers to one attempt.                              *)
(***************************************************************************)
\* httpx.RequestError raised by self._client.request
Fault(name) ==
    [fault |-> name, status_code |-> NoneInt, content |-> "empty",
     error |-> NoneText, retry_after |-> NoneText]
\* a response; content is "empty", "json" (an object, error its "error"
\* member or NoneText) or "not_json"; retry_after the Retry-After header
Http(status_code, content, error, retry_after) ==
    [fault |-> None, status_code |-> status_code, content |-> content,
     error |-> error, retry_after |-> retry_after]

is_success(resp) == resp.status_code >= 200 /\ resp.status_code <= 299

NoResponse == Http(NoneInt, "empty", NoneText, NoneText)
Ok200 == Http(200, "json", NoneText, NoneText)

ErrorResponses ==
    { Fault("ConnectError"), Fault("ReadTimeout"),
      Http(400, "json", MsgScope, NoneText),
      Http(400, "json", MsgBad, NoneText),
      Http(401, "empty", NoneText, NoneText),
      Http(404, "json", MsgBad, NoneText),
      Http(429, "json", MsgBad, NoneText),
      Http(429, "json", MsgBad, <<"3","0">>),
      Http(429, "json", MsgBad, <<"a","b","c">>),
      Http(500, "json", NoneText, NoneText),
      Http(503, "json", MsgBad, NoneText),
      Http(502, "not_json", NoneText, NoneText) }

(***************************************************************************)
(* client.py                                                               *)
(***************************************************************************)
Intents == {"", "lead_gen"}
\* the tool argument of proxy() and proxy_async()
Tools == {"serpapi", "http_fetch"}
\* the tool argument of the proxy_async() calls drawn
AsyncTools == {"http_fetch"}

TokenOptions(tools, permissions, ttl_minutes) ==
    [tools |-> tools, permissions |-> permissions, ttl_minutes |-> ttl_minutes]

\* what a caller of get_token passes
DirectTokenOptions == {TokenOptions(<<"serpapi">>, <<"read">>, 5)}

\* proxy() and proxy_async() asking for a token themselves, with the
\* permissions cut to read
AutoTokenOptions_read_only(tool) == TokenOptions(<<tool>>, <<"read">>, 10)

\* the TokenOptions proxy() and proxy_async() build when no token is supplied
AutoTokenOptions(tool) == TokenOptions(<<tool>>, <<"read", "write">>, 10)

\* a request without a JSON body (get_job)
NoBody ==
    [agent_token |-> NoToken, intent |-> None, async |-> FALSE, tool |-> None,
     tools |-> <<>>, permissions |-> <<>>, expires_at |-> NoneInt]

\* the body get_token builds: expires_at is time.time() + ttl_minutes * 60
TokenBody(opts) ==
    [NoBody EXCEPT !.tools = opts.tools, !.permissions = opts.permissions,
                   !.expires_at = now + opts.ttl_minutes * 60]

\* the body with intent set whatever the label is
ProxyBody_always_intent(tool, token, async) ==
    [NoBody EXCEPT !.agent_token = token, !.tool = tool,
                   !.intent = current_intent, !.async = async]

\* the body proxy() and proxy_async() build: intent is added when
\* self.current_intent is non-empty
ProxyBody(tool, token, async) ==
    [NoBody EXCEPT !.agent_token = token, !.tool = tool,
                   !.intent = IF current_intent # "" THEN current_intent ELSE None,
                   !.async = async]

\* intent_at_call is self.current_intent as proxy() or proxy_async() was
\* called; completed is the list of the transactions the task's operation has
\* finished before the one in progress, each as (path, body, token returned);
\* response is the transport's answer to the latest attempt answered
IdleTask ==
    [op |-> None, pc |-> "idle", tool |-> None, supplied |-> NoToken, token |-> NoToken,
     intent_at_call |-> None, method |-> None,
     completed |-> <<>>, call |-> 0, path |-> None, body |-> NoBody,
     correlation_id |-> NoCorrelationId, cid_generated |-> 0,
     options |-> DefaultOptions, attempt |-> 0, attempts |-> 0, waits |-> 0,
     delay |-> 0, response |-> NoResponse, last_error |-> NoError,
     raised |-> NoError, result |-> NoToken]

\* the request self._client.request is given for the current attempt of t;
\* stale notes whether the token in its body is more than 24 hours old as
\* the request leaves
Request(t) ==
    [call |-> t.call, method |-> t.method, path |-> t.path, attempt |-> t.attempt,
     headers |-> [X_Correlation_Id |-> t.correlation_id],
     body |-> t.body, stale |-> Stale(t.body.agent_token, now)]

\* _request() of _make_request on the transport's answer: the exception it
\* raises, NoError when it returns the response
_request(resp) ==
    IF resp.fault # None THEN
        GatewayError(MsgNetwork \o <<resp.fault>>, NoneInt, "NETWORK_ERROR")
    ELSE IF ~is_success(resp) THEN
        IF resp.content = "not_json" THEN JSONDecodeError
        ELSE
            LET error_data == IF resp.content = "empty" THEN MsgUnknown ELSE resp.error
            IN  create_error_from_response(
                    resp.status_code,
                    IF error_data = NoneText THEN MsgHttp(resp.status_code) ELSE error_data,
                    resp.retry_after)
    ELSE NoError

\* with_retry's except clause with the last attempt taken to be max_retries + 1
with_retry_except_one_more(t, error, rnd) ==
    IF t.attempt = t.options.max_retries + 1 THEN
        [t EXCEPT !.last_error = error, !.raised = error, !.pc = "failed"]
    ELSE IF IsGatewayError(error) /\ ~is_retryable_error(error) THEN
        [t EXCEPT !.last_error = error, !.raised = error, !.pc = "failed"]
    ELSE
        [t EXCEPT !.last_error = error, !.pc = "wait", !.waits = @ + 1,
                  !.delay = calculate_delay(t.attempt, t.options, rnd)]

\* with_retry's except clause surfacing the first error it saw
with_retry_except_first_error(t, error, rnd) ==
    LET first == IF t.last_error # NoError THEN t.last_error ELSE error
    IN  IF t.attempt = t.options.max_retries THEN
            [t EXCEPT !.last_error = error, !.raised = first, !.pc = "failed"]
        ELSE IF IsGatewayError(error) /\ ~is_retryable_error(error) THEN
            [t EXCEPT !.last_error = error, !.raised = first, !.pc = "failed"]
        ELSE
            [t EXCEPT !.last_error = error, !.pc = "wait", !.waits = @ + 1,
                      !.delay = calculate_delay(t.attempt, t.options, rnd)]

\* with_retry's except clause, for the error the attempt t.attempt raised
with_retry_except(t, error, rnd) ==
    IF t.attempt = t.options.max_retries THEN
        [t EXCEPT !.last_error = error, !.raised = error, !.pc = "failed"]
    ELSE IF IsGatewayError(error) /\ ~is_retryable_error(error) THEN
        [t EXCEPT !.last_error = error, !.raised = error, !.pc = "failed"]
    ELSE
        [t EXCEPT !.last_error = error, !.pc = "wait", !.waits = @ + 1,
                  !.delay = calculate_delay(t.attempt, t.options, rnd)]

\* _make_request up to its first suspension: the correlation id, the
\* headers, and with_retry(_request) entering attempt 0
_make_request(t, path, method, body, rnd) ==
    [t EXCEPT !.call = @ + 1, !.path = path, !.method = method, !.body = body,
              !.correlation_id = generate_correlation_id(rnd),
              !.cid_generated = @ + 1,
              !.options = DefaultOptions,
              !.attempt = 0, !.attempts = 1, !.waits = 0, !.delay = 0,
              !.response = NoResponse, !.last_error = NoError, !.pc = "inflight"]

\* get_token(opts) up to its first suspension
get_token_call(t, opts, rnd) ==
    _make_request(t, "/api/generate-token", "POST", TokenBody(opts), rnd)

\* proxy() from its token-age check on, up to the first suspension
proxy_with_token(t, token, rnd) ==
    IF token # NoToken /\ _get_token_age(token) > TokenMaxAgeMs THEN
        [t EXCEPT !.token = token, !.pc = "failed",
                  !.raised = GatewayTokenError(MsgTokenOld, NoneInt)]
    ELSE
        _make_request([t EXCEPT !.token = token], "/api/proxy-request", "POST",
                      ProxyBody(t.tool, token, FALSE), rnd)

\* proxy_async() from building its body on, up to the first suspension
proxy_async_with_token(t, token, rnd) ==
    _make_request([t EXCEPT !.token = token], "/api/proxy-request", "POST",
                  ProxyBody(t.tool, token, TRUE), rnd)

\* the task p becomes t; when t has just handed an attempt to the
\* transport, the request goes on the wire (a new transaction starts it afresh)
Step(p, t) ==
    /\ task' = [task EXCEPT ![p] = t]
    /\ wire' = IF t.pc = "inflight" /\ t.op # "with_retry"
               THEN [wire EXCEPT ![p] = IF t.call # task[p].call
                                        THEN <<Request(t)>>
                                        ELSE Append(@, Request(t))]
               ELSE wire

set_intent(intent) ==
    /\ current_intent' = intent
    /\ UNCHANGED <<now, task, wire, fn_in, fn_out>>

get_token(p, opts, rnd) ==
    /\ task[p].pc = "idle"
    /\ Step(p, get_token_call([task[p] EXCEPT !.op = "get_token"], opts, rnd))
    /\ UNCHANGED <<now, current_intent, fn_in, fn_out>>

proxy(p, tool, agent_token, rnd) ==
    /\ task[p].pc = "idle"
    /\ LET t == [task[p] EXCEPT !.op = "proxy", !.tool = tool, !.supplied = agent_token,
                                !.intent_at_call = current_intent]
       IN  Step(p, IF agent_token = NoToken
                   THEN get_token_call(t, AutoTokenOptions(tool), rnd)
                   ELSE proxy_with_token(t, agent_token, rnd))
    /\ UNCHANGED <<now, current_intent, fn_in, fn_out>>

proxy_async(p, tool, agent_token, rnd) ==
    /\ task[p].pc = "idle"
    /\ LET t == [task[p] EXCEPT !.op = "proxy_async", !.tool = tool,
                                !.supplied = agent_token,
                                !.intent_at_call = current_intent]
       IN  Step(p, IF agent_token = NoToken
                   THEN get_token_call(t, AutoTokenOptions(tool), rnd)
                   ELSE proxy_async_with_token(t, agent_token, rnd))
    /\ UNCHANGED <<now, current_intent, fn_in, fn_out>>

get_job(p, rnd) ==
    /\ task[p].pc = "idle"
    /\ Step(p, _make_request([task[p] EXCEPT !.op = "get_job"], "/api/jobs/{job_id}",
                             "GET", NoBody, rnd))
    /\ UNCHANGED <<now, current_intent, fn_in, fn_out>>

\* with_retry(fn, options) called directly, entering attempt 0
with_retry(p, options) ==
    /\ task[p].pc = "idle"
    /\ Step(p, [task[p] EXCEPT !.op = "with_retry", !.options = options,
                               !.attempt = 0, !.attempts = 1, !.pc = "inflight"])
    /\ UNCHANGED <<now, current_intent, fn_in, fn_out>>

\* The transport returns a 2xx response holding agent_token to the
\* /api/generate-token attempt in flight: with_retry and get_token return,
\* and the operation that asked for the token continues to its next suspension.
TokenResponse(p, agent_token, rnd) ==
    /\ task[p].pc = "inflight"
    /\ task[p].path = "/api/generate-token"
    /\ LET t == [task[p] EXCEPT !.response = Ok200, !.completed =
                        Append(@, [path |-> task[p].path, body |-> task[p].body,
                                   agent_token |-> agent_token])]
       IN  Step(p, IF t.op = "proxy" THEN proxy_with_token(t, agent_token, rnd)
                   ELSE IF t.op = "proxy_async"
                       THEN proxy_async_with_token(t, agent_token, rnd)
                   ELSE [t EXCEPT !.pc = "done", !.result = agent_token])
    /\ UNCHANGED <<now, current_intent, fn_in, fn_out>>

\* The transport returns a 2xx response to a /api/proxy-request or
\* /api/jobs attempt in flight: with_retry returns it and the operation ends.
ResponseSuccess(p) ==
    /\ task[p].pc = "inflight"
    /\ task[p].path \in {"/api/proxy-request", "/api/jobs/{job_id}"}
    /\ Step(p, [task[p] EXCEPT !.response = Ok200, !.pc = "done"])
    /\ UNCHANGED <<now, current_intent, fn_in, fn_out>>

\* The transport fails or returns a non-2xx response: _request raises and
\* with_retry's except clause decides.
ResponseError(p, resp, rnd) ==
    /\ task[p].pc = "inflight"
    /\ task[p].op \in {"get_token", "proxy", "proxy_async", "get_job"}
    /\ Step(p, with_retry_except([task[p] EXCEPT !.response = resp], _request(resp), rnd))
    /\ UNCHANGED <<now, current_intent, fn_in, fn_out>>

\* a retry that makes itself a new correlation id
Wake_new_id(p) ==
    /\ task[p].pc = "wait"
    /\ \E rnd \in 1..NumRandomStr :
        Step(p, [task[p] EXCEPT !.attempt = @ + 1, !.attempts = @ + 1,
                                !.correlation_id = generate_correlation_id(rnd),
                                !.cid_generated = @ + 1,
                                !.delay = 0, !.pc = "inflight"])
    /\ UNCHANGED <<now, current_intent, fn_in, fn_out>>

\* one timer for the whole client: when it fires every waiting task resumes
Wake_all(p) ==
    /\ task[p].pc = "wait"
    /\ LET woken(q) == [task[q] EXCEPT !.attempt = @ + 1, !.attempts = @ + 1,
                                       !.delay = 0, !.pc = "inflight"]
       IN  /\ task' = [q \in DOMAIN task |->
                        IF task[q].pc = "wait" THEN woken(q) ELSE task[q]]
           /\ wire' = [q \in DOMAIN task |->
                        IF task[q].pc = "wait" /\ task[q].op # "with_retry"
                        THEN Append(wire[q], Request(woken(q))) ELSE wire[q]]
    /\ UNCHANGED <<now, current_intent, fn_in, fn_out>>

\* a loop that goes on to another attempt after it has raised
Wake_after_failed(p) ==
    /\ task[p].pc \in {"wait", "failed"}
    /\ task[p].last_error # NoError
    /\ Step(p, [task[p] EXCEPT !.attempt = @ + 1, !.attempts = @ + 1,
                               !.delay = 0, !.pc = "inflight"])
    /\ UNCHANGED <<now, current_intent, fn_in, fn_out>>

\* a retry that builds the proxy body again from the client as it is now
Wake_rebuild_body(p) ==
    /\ task[p].pc = "wait"
    /\ Step(p, [task[p] EXCEPT !.attempt = @ + 1, !.attempts = @ + 1,
                               !.body = IF task[p].path = "/api/proxy-request"
                                        THEN ProxyBody(task[p].tool, task[p].token,
                                                       task[p].body.async)
                                        ELSE @,
                               !.delay = 0, !.pc = "inflight"])
    /\ UNCHANGED <<now, current_intent, fn_in, fn_out>>

\* asyncio.sleep(delay) returns: the loop's next attempt starts
Wake(p) ==
    /\ task[p].pc = "wait"
    /\ Step(p, [task[p] EXCEPT !.attempt = @ + 1, !.attempts = @ + 1,
                               !.delay = 0, !.pc = "inflight"])
    /\ UNCHANGED <<now, current_intent, fn_in, fn_out>>

\* time passes
Tick ==
    /\ now < NowStart + MaxTicks * TickSeconds
    /\ now' = now + TickSeconds
    /\ UNCHANGED <<current_intent, task, wire, fn_in, fn_out>>

\* What a function handed to with_retry directly may raise: every shape of
\* exception the SDK constructs (create_error_from_response, _request,
\* proxy, GatewayNetworkError) and an exception that is no GatewayError.
FnErrors ==
    { GatewayAuthError(MsgBad, 401),
      GatewayPolicyError(MsgScope, 400),
      GatewayTokenError(MsgTokenOld, NoneInt),
      GatewayRateLimitError(MsgBad, NoneInt, 429),
      GatewayUpstreamError(MsgBad, 502),
      GatewayNetworkError(MsgNetwork, "ConnectError"),
      GatewayError(MsgBad, 500, None),
      GatewayError(MsgBad, 404, None),
      ValueError }

DirectOptions ==
    { RetryOptions(m, DefaultBaseDelay, DefaultMaxDelay, j) :
        m \in 0..MaxRetriesArg, j \in BOOLEAN }

\* fn() of a direct with_retry call returns
FnReturns(p) ==
    /\ task[p].pc = "inflight"
    /\ task[p].op = "with_retry"
    /\ Step(p, [task[p] EXCEPT !.pc = "done"])
    /\ UNCHANGED <<now, current_intent, fn_in, fn_out>>

\* fn() of a direct with_retry call raises
FnRaises(p, error, rnd) ==
    /\ task[p].pc = "inflight"
    /\ task[p].op = "with_retry"
    /\ Step(p, with_retry_except(task[p], error, rnd))
    /\ UNCHANGED <<now, current_intent, fn_in, fn_out>>

NoInput == [fn |-> None]

Init ==
    /\ now = NowStart
    /\ current_intent \in Intents
    /\ task = [p \in {1} |-> IdleTask]
    /\ wire = [p \in {1} |-> <<>>]
    /\ fn_in = NoInput
    /\ fn_out = <<>>

Next ==
    \/ \E intent \in Intents : set_intent(intent)
    \/ Tick
    \/ \E p \in DOMAIN task, rnd \in 1..NumRandomStr, opts \in DirectTokenOptions :
            get_token(p, opts, rnd)
    \/ \E p \in DOMAIN task, rnd \in 1..NumRandomStr : get_job(p, rnd)
    \/ \E p \in DOMAIN task, rnd \in 1..NumRandomStr, tool \in Tools,
          agent_token \in Tokens \cup {NoToken} :
            proxy(p, tool, agent_token, rnd)
    \/ \E p \in DOMAIN task, rnd \in 1..NumRandomStr, tool \in AsyncTools,
          agent_token \in Tokens \cup {NoToken} :
            proxy_async(p, tool, agent_token, rnd)
    \/ \E p \in DOMAIN task, options \in DirectOptions : with_retry(p, options)
    \/ \E p \in DOMAIN task, rnd \in 1..NumRandomStr, agent_token \in ServerTokens :
            TokenResponse(p, agent_token, rnd)
    \/ \E p \in DOMAIN task : ResponseSuccess(p)
    \/ \E p \in DOMAIN task, rnd \in {0, RandomDen - 1}, resp \in ErrorResponses :
            ResponseError(p, resp, rnd)
    \/ \E p \in DOMAIN task : FnReturns(p)
    \/ \E p \in DOMAIN task, rnd \in {0, RandomDen - 1}, error \in FnErrors :
            FnRaises(p, error, rnd)
    \/ \E p \in DOMAIN task : Wake(p)

Spec == Init /\ [][Next]_vars

(***************************************************************************)
(* Two asyncio tasks on one client.  Each awaits get_job or proxy; the     *)
(* event loop runs one task at a time from one suspension to the next, so  *)
(* an action is one such segment.  The inputs are cut down to one tool,    *)
(* the tokens ConcurrentTokens and the answers ConcurrentAnswers.          *)
(***************************************************************************)
ConcurrentTasks == {1, 2}
ConcurrentTokens == {TokFresh, TokStale, NoToken}
ConcurrentAnswers == {Fault("ConnectError"), Http(401, "empty", NoneText, NoneText)}

InitConcurrent ==
    /\ now = NowStart
    /\ current_intent = ""
    /\ task = [p \in ConcurrentTasks |-> IdleTask]
    /\ wire = [p \in ConcurrentTasks |-> <<>>]
    /\ fn_in = NoInput
    /\ fn_out = <<>>

\* the transport answers the attempt task p has in flight
Answer(p) ==
    \/ TokenResponse(p, TokFresh, 1)
    \/ ResponseSuccess(p)
    \/ \E resp \in ConcurrentAnswers : ResponseError(p, resp, 0)

NextConcurrent ==
    \/ \E intent \in Intents : set_intent(intent)
    \/ \E p \in ConcurrentTasks : get_job(p, 1)
    \/ \E p \in ConcurrentTasks, agent_token \in ConcurrentTokens :
            proxy(p, "serpapi", agent_token, 1)
    \/ \E p \in ConcurrentTasks : Answer(p)
    \/ \E p \in ConcurrentTasks : Wake(p)

SpecConcurrent == InitConcurrent /\ [][NextConcurrent]_vars

\* the same, where every attempt in flight is answered in the end and every
\* asyncio.sleep returns in the end
SpecFair ==
    /\ InitConcurrent
    /\ [][NextConcurrent]_vars
    /\ \A p \in ConcurrentTasks : WF_vars(Answer(p)) /\ WF_vars(Wake(p))

(***************************************************************************)
(* The classifier alone: create_error_from_response applied once to        *)
(* arguments drawn from StatusCodes, Messages and RetryAfters.             *)
(***************************************************************************)
StatusCodes == {300, 400, 401, 403, 404, 409, 422, 429, 500, 501, 502, 503, 504}
Messages == {MsgScope, MsgPolicyUpper, MsgBad, MsgScop, MsgUnknown, <<>>}
RetryAfters == {NoneText, <<>>, <<"3","0">>, <<"7">>, <<"a","b","c">>, <<"1",".","5">>}

InitClassify ==
    /\ now = NowStart
    /\ current_intent = ""
    /\ task = [p \in {1} |-> IdleTask]
    /\ wire = [p \in {1} |-> <<>>]
    /\ fn_in \in { [fn |-> "create_error_from_response", status_code |-> s,
                     error_message |-> m, retry_after |-> ra] :
                        s \in StatusCodes, m \in Messages, ra \in RetryAfters }
    /\ fn_out = <<>>

Classify ==
    /\ fn_out = <<>>
    /\ fn_out' = <<create_error_from_response(fn_in.status_code, fn_in.error_message,
                                              fn_in.retry_after)>>
    /\ UNCHANGED <<now, current_intent, task, wire, fn_in>>

SpecClassify == InitClassify /\ [][Classify]_vars

(***************************************************************************)
(* The delay alone: calculate_delay applied to the attempt indices         *)
(* 0, 1, 2, ... in turn, as with_retry's loop does, under options drawn    *)
(* from DelayOptions; fn_out lists the delays computed.                    *)
(***************************************************************************)
DelayOptions ==
    { RetryOptions(DefaultMaxRetries, b, m, j) :
        b \in {DefaultBaseDelay, DefaultBaseDelay \div 2},
        m \in {3 * DefaultBaseDelay, DefaultMaxDelay},
        j \in BOOLEAN }

InitDelay ==
    /\ now = NowStart
    /\ current_intent = ""
    /\ task = [p \in {1} |-> IdleTask]
    /\ wire = [p \in {1} |-> <<>>]
    /\ fn_in \in { [fn |-> "calculate_delay", options |-> o] : o \in DelayOptions }
    /\ fn_out = <<>>

Delay(rnd) ==
    /\ Len(fn_out) <= MaxAttemptArg
    /\ fn_out' = Append(fn_out, calculate_delay(Len(fn_out), fn_in.options, rnd))
    /\ UNCHANGED <<now, current_intent, task, wire, fn_in>>

SpecDelay == InitDelay /\ [][\E rnd \in 0..(RandomDen - 1) : Delay(rnd)]_vars

(***************************************************************************)
(* Properties.                                                             *)
(***************************************************************************)
\* the error kinds the retry policy is said to retry
Transient(error) ==
    \/ error.code = "NETWORK_ERROR"
    \/ error.kind = "GatewayUpstreamError"
    \/ error.status_code >= 500

\* the latest attempt of task p's transaction raised last_error, and the
\* pipeline has decided on it: it waits, or has surfaced that error
Answered(p) ==
    \/ task[p].pc = "wait"
    \/ task[p].pc = "failed" /\ task[p].last_error # NoError
                             /\ task[p].raised = task[p].last_error

\* C1: a 429 response, whatever its Retry-After header, ends the transaction
\* at the attempt it answers: a RateLimit error is surfaced, no backoff wait
\* follows, and when it answers the first attempt there was exactly one attempt.
C1_RateLimitNeverRetried ==
    \A p \in DOMAIN task :
        (Answered(p) /\ task[p].response.status_code = 429) =>
            /\ task[p].pc = "failed"
            /\ task[p].raised.kind = "GatewayRateLimitError"
            /\ task[p].waits = task[p].attempt
            /\ (task[p].attempt = 0 => Len(wire[p]) = 1)

\* C2 (step): proxy() called with a token whose iat is more than 24 hours
\* before the time of the call fails at once with a Token error, having handed
\* nothing to the transport.
C2_StaleStep ==
    \A p \in DOMAIN task :
        ( /\ task[p].pc = "idle"
          /\ task'[p].op = "proxy"
          /\ task'[p].supplied # NoToken
          /\ Stale(task'[p].supplied, now) )
        => /\ task'[p].pc = "failed"
           /\ task'[p].raised.kind = "GatewayTokenError"
           /\ task'[p].call = 0
           /\ wire'[p] = <<>>

\* C2 (state): a proxy() call on a supplied token that ended in a Token
\* error made no transaction and sent no request.
C2_StaleState ==
    \A p \in DOMAIN task :
        ( /\ task[p].op = "proxy"
          /\ task[p].supplied # NoToken
          /\ task[p].raised.kind = "GatewayTokenError" )
        => /\ task[p].pc = "failed"
           /\ task[p].call = 0
           /\ task[p].attempts = 0
           /\ wire[p] = <<>>

\* C2: proxy() with a caller-supplied token older than 24 hours goes from the
\* token check straight to Failed with a Token error; the transport receives
\* no request.
C2_StaleTokenFailsBeforeDispatch == [][C2_StaleStep]_vars /\ []C2_StaleState

C2_Witness ==
    \E p \in DOMAIN task :
        /\ task[p].op = "proxy"
        /\ task[p].supplied = TokStale
        /\ task[p].pc = "failed"
        /\ task[p].raised.kind = "GatewayTokenError"
        /\ wire[p] = <<>>

\* C3: no request to /api/proxy-request carries a token whose iat is more
\* than 24 hours old when the request is sent.
C3_NoStaleTokenSent ==
    \A p \in DOMAIN task :
        \A i \in DOMAIN wire[p] :
            wire[p][i].path = "/api/proxy-request" => ~wire[p][i].stale

\* C4 (state): never more than max_retries + 1 attempts; a success on
\* attempt k means k + 1 attempts were made; a Network error only ends the
\* transaction when it is the error of attempt max_retries.
C4_State ==
    \A p \in DOMAIN task :
        /\ task[p].attempts <= task[p].options.max_retries + 1
        /\ (task[p].op # "with_retry" => Len(wire[p]) = task[p].attempts)
        /\ (task[p].pc = "done" => task[p].attempts = task[p].attempt + 1)
        /\ (task[p].pc = "failed" /\ task[p].raised.code = "NETWORK_ERROR"
                => task[p].attempts = task[p].options.max_retries + 1)

\* C4 (step): nothing is attempted after the success.
C4_Step ==
    \A p \in DOMAIN task :
        task[p].pc = "done" => (task'[p] = task[p] /\ wire'[p] = wire[p])

\* C4: with_retry makes at most max_retries + 1 attempts; Network errors on
\* attempts 0..k-1 and a success on attempt k <= max_retries give exactly
\* k + 1 attempts and a successful return, and no attempt after it.
C4_AttemptsBounded == []C4_State /\ [][C4_Step]_vars

C4_Witness ==
    \E p \in DOMAIN task :
        /\ task[p].pc = "done"
        /\ task[p].options.max_retries = 3
        /\ task[p].attempt = 3
        /\ task[p].attempts = 4
        /\ task[p].last_error.code = "NETWORK_ERROR"

\* C5: an Auth, Policy or Token error raised by an attempt ends the
\* transaction there, whatever max_retries is: that error is surfaced, no
\* backoff wait follows, and when it is the first attempt's error there was
\* exactly one attempt.
C5_AuthPolicyTokenNeverRetried ==
    \A p \in DOMAIN task :
        task[p].last_error.kind
            \in {"GatewayAuthError", "GatewayPolicyError", "GatewayTokenError"}
        => /\ task[p].pc = "failed"
           /\ task[p].raised = task[p].last_error
           /\ task[p].attempts = task[p].attempt + 1
           /\ task[p].waits = task[p].attempt
           /\ (task[p].op # "with_retry" => Len(wire[p]) = task[p].attempts)

C5_Witness ==
    \E p \in DOMAIN task :
        /\ task[p].op = "with_retry"
        /\ task[p].options.max_retries = 2
        /\ task[p].pc = "failed"
        /\ task[p].raised.kind = "GatewayAuthError"
        /\ task[p].attempts = 1
        /\ task[p].waits = 0

\* C6 (state): a transport fault (a timeout included) is a Network error; an
\* attempt i < max_retries that failed with a Network error, an Upstream
\* error or an error of status >= 500 does not end the transaction.
C6_State ==
    \A p \in DOMAIN task :
        /\ (Answered(p) /\ task[p].response.fault # None
                => task[p].last_error.code = "NETWORK_ERROR")
        /\ (Answered(p) /\ task[p].response.status_code >= 500
                     /\ task[p].response.content # "not_json"
                => task[p].last_error.status_code = task[p].response.status_code)
        /\ (Answered(p) /\ Transient(task[p].last_error)
                        /\ task[p].attempt < task[p].options.max_retries
                => task[p].pc = "wait")

\* C6 (step): the only step out of the backoff wait is attempt i + 1 of the
\* same transaction.
C6_Step ==
    \A p \in DOMAIN task :
        (task[p].pc = "wait" /\ task'[p] # task[p]) =>
            /\ task'[p].pc = "inflight"
            /\ task'[p].attempt = task[p].attempt + 1
            /\ task'[p].call = task[p].call
            /\ task'[p].body = task[p].body
            /\ (task[p].op # "with_retry" =>
                    /\ Len(wire'[p]) = Len(wire[p]) + 1
                    /\ wire'[p][Len(wire'[p])].attempt = task[p].attempt + 1
                    /\ wire'[p][Len(wire'[p])].path = task[p].path)

\* C6: after a Network error (timeouts included), an Upstream error or an
\* error of status >= 500 on attempt i < max_retries the pipeline goes on to
\* attempt i + 1 instead of surfacing the error.
C6_TransientErrorsRetried == []C6_State /\ [][C6_Step]_vars

C6_Witness ==
    \E p \in DOMAIN task :
        /\ task[p].pc = "inflight"
        /\ task[p].attempt = 1
        /\ task[p].response.fault = "ReadTimeout"
        /\ Len(wire[p]) = 2

\* C7: with jitter off the delay for attempt index i is
\* min(base_delay * 2^i, max_delay): never above max_delay, non-decreasing
\* in i, 1s 2s 4s for base 1s / max 10s and 1s 2s 3s for base 1s / max 3s.
C7_DelayWithoutJitter ==
    (fn_in.fn = "calculate_delay" /\ ~fn_in.options.jitter) =>
        LET base == fn_in.options.base_delay
            cap == fn_in.options.max_delay
            second == DefaultBaseDelay
        IN  /\ \A i \in DOMAIN fn_out :
                /\ fn_out[i] = IF base * Pow2(i - 1) <= cap
                               THEN base * Pow2(i - 1) ELSE cap
                /\ fn_out[i] <= cap
                /\ (i > 1 => fn_out[i - 1] <= fn_out[i])
            /\ (base = second /\ cap = 10 * second =>
                    \A i \in DOMAIN fn_out \cap 1..3 :
                        fn_out[i] = <<1, 2, 4>>[i] * second)
            /\ (base = second /\ cap = 3 * second =>
                    \A i \in DOMAIN fn_out \cap 1..3 :
                        fn_out[i] = <<1, 2, 3>>[i] * second)

C7_Witness ==
    /\ fn_in.fn = "calculate_delay"
    /\ ~fn_in.options.jitter
    /\ fn_in.options.base_delay = DefaultBaseDelay
    /\ fn_in.options.max_delay = 3 * DefaultBaseDelay
    /\ Len(fn_out) >= 3
    /\ fn_out[3] = 3 * DefaultBaseDelay

\* the messages of Messages that contain "policy" or "scope" in some letter case
PolicyWording == {MsgScope, MsgPolicyUpper}

\* C8: create_error_from_response(status_code, error_message), retry_after
\* left at its default None, returns one error for every non-success status
\* and message: Auth iff 401 or 403, RateLimit iff 429, Policy iff 400 with
\* "policy" or "scope" in the message in any letter case, Upstream iff 502,
\* 503 or 504, and otherwise a plain GatewayError; each carries the status and
\* the message it was given.
C8_ClassifierMapping ==
    ( /\ fn_in.fn = "create_error_from_response"
      /\ fn_in.retry_after = NoneText
      /\ fn_out # <<>> ) =>
        LET e == fn_out[1]
            s == fn_in.status_code
            m == fn_in.error_message
        IN  /\ e.kind \in {"GatewayAuthError", "GatewayRateLimitError", "GatewayPolicyError",
                           "GatewayUpstreamError", "GatewayError"}
            /\ (e.kind = "GatewayAuthError" <=> s \in {401, 403})
            /\ (e.kind = "GatewayRateLimitError" <=> s = 429)
            /\ (e.kind = "GatewayPolicyError" <=> (s = 400 /\ m \in PolicyWording))
            /\ (e.kind = "GatewayUpstreamError" <=> s \in {502, 503, 504})
            /\ (e.kind = "GatewayError" <=>
                    ~(s \in {401, 403, 429, 502, 503, 504} \/ (s = 400 /\ m \in PolicyWording)))
            /\ e.status_code = s
            /\ e.message = m
            /\ (e.kind = "GatewayError" => e.code = None)

C8_Witness ==
    /\ fn_in.fn = "create_error_from_response"
    /\ fn_in.retry_after = NoneText
    /\ fn_in.status_code = 400
    /\ fn_in.error_message = MsgPolicyUpper
    /\ fn_out # <<>>
    /\ fn_out[1].kind = "GatewayPolicyError"

\* C9: for status 429 the classifier returns a RateLimit error whose
\* retry_after is the header's integer value when the header is present and
\* an integer, and unset when the header is absent or not an integer.
C9_RetryAfterFromHeader ==
    ( /\ fn_in.fn = "create_error_from_response"
      /\ fn_in.status_code = 429
      /\ fn_out # <<>> ) =>
        /\ fn_out[1].kind = "GatewayRateLimitError"
        /\ fn_out[1].retry_after =
                CASE fn_in.retry_after = <<"3","0">> -> 30
                  [] fn_in.retry_after = <<"7">> -> 7
                  [] OTHER -> NoneInt

\* C10: each transaction (one _make_request call) generates one correlation
\* id, before its first attempt, and every request of the transaction, the
\* retries included, carries that id in X-Correlation-Id.
C10_OneCorrelationIdPerTransaction ==
    \A p \in DOMAIN task :
        /\ task[p].cid_generated = task[p].call
        /\ \A i \in DOMAIN wire[p] :
            /\ wire[p][i].headers.X_Correlation_Id # NoCorrelationId
            /\ wire[p][i].headers.X_Correlation_Id = task[p].correlation_id
            /\ wire[p][i].headers.X_Correlation_Id = wire[p][1].headers.X_Correlation_Id
            /\ wire[p][i].call = task[p].call

C10_Witness ==
    \E p \in DOMAIN task :
        /\ task[p].call = 2
        /\ Len(wire[p]) = DefaultMaxRetries + 1
        /\ now > NowStart
        /\ wire[p][4].headers.X_Correlation_Id.timestamp = NowStart * 1000

\* the operations that go through _make_request
PipelineOps == {"get_token", "proxy", "proxy_async", "get_job"}

\* C11: a call that goes through the request pipeline ends in a successful
\* return or in one typed Gateway Error; nothing that is not a GatewayError
\* is raised to the caller, and nothing is raised before the call has ended.
C11_OneTypedOutcome ==
    \A p \in DOMAIN task :
        task[p].op \in PipelineOps =>
            /\ (task[p].pc = "failed" => IsGatewayError(task[p].raised))
            /\ (task[p].pc # "failed" => task[p].raised = NoError)

\* C13: proxy() called without a token runs one token-issuance transaction
\* (tools = [tool], permissions = [read, write], expiry 10 minutes ahead)
\* first; a request to /api/proxy-request exists only after that transaction
\* returned and carries the token it returned; when the token-issuance
\* transaction fails, its error is raised and no proxy transaction was started.
C13_AutoTokenBeforeProxy ==
    \A p \in DOMAIN task :
        (task[p].op = "proxy" /\ task[p].supplied = NoToken) =>
            /\ Len(task[p].completed) <= 1
            /\ \A i \in DOMAIN wire[p] :
                /\ wire[p][i].path = task[p].path
                /\ wire[p][i].path = "/api/generate-token" =>
                    /\ wire[p][i].body.tools = <<task[p].tool>>
                    /\ wire[p][i].body.permissions = <<"read", "write">>
                    /\ wire[p][i].body.expires_at - 10 * 60 <= now
                    /\ wire[p][i].body.expires_at - 10 * 60 >= NowStart
                /\ wire[p][i].path = "/api/proxy-request" =>
                    /\ Len(task[p].completed) = 1
                    /\ wire[p][i].body.agent_token = task[p].completed[1].agent_token
                    /\ wire[p][i].body.tool = task[p].tool
            /\ (task[p].path = "/api/proxy-request" =>
                    /\ task[p].call = 2
                    /\ Len(task[p].completed) = 1
                    /\ task[p].completed[1].path = "/api/generate-token"
                    /\ task[p].completed[1].body.tools = <<task[p].tool>>
                    /\ task[p].completed[1].body.permissions = <<"read", "write">>)
            /\ (task[p].path = "/api/generate-token" => task[p].call = 1)
            /\ (task[p].pc = "failed" /\ task[p].completed = <<>> =>
                    /\ task[p].call = 1
                    /\ task[p].path = "/api/generate-token"
                    /\ task[p].last_error # NoError
                    /\ task[p].raised = task[p].last_error)

C13_Witness ==
    \E p \in DOMAIN task :
        /\ task[p].op = "proxy"
        /\ task[p].supplied = NoToken
        /\ task[p].tool = "http_fetch"
        /\ task[p].pc = "done"
        /\ task[p].path = "/api/proxy-request"
        /\ task[p].completed[1].body.tools = <<"http_fetch">>
        /\ wire[p][1].body.agent_token = TokFresh
        /\ Len(wire[p]) = 2

\* C16: an attempt that ended in a transport fault raises the Network error
\* class, and that error holds the fault as its original_error.
C16_TransportFaultIsNetworkError ==
    \A p \in DOMAIN task :
        (Answered(p) /\ task[p].response.fault # None) =>
            /\ task[p].last_error.kind = "GatewayNetworkError"
            /\ task[p].last_error.original_error = task[p].response.fault

\* C17: the error a failed transaction raises to the caller is the error its
\* last attempt raised, field for field: the error made from the answer to
\* attempt `attempt`, where that attempt is attempt max_retries or the error is
\* a GatewayError the policy does not retry.
C17_SurfacedErrorIsLast ==
    \A p \in DOMAIN task :
        (task[p].pc = "failed" /\ task[p].last_error # NoError
                               /\ task[p].raised.kind # "GatewayTokenError") =>
            /\ task[p].raised = task[p].last_error
            /\ (task[p].op \in PipelineOps =>
                    /\ task[p].raised = _request(task[p].response)
                    /\ wire[p][Len(wire[p])].attempt = task[p].attempt)
            /\ \/ task[p].attempt = task[p].options.max_retries
               \/ IsGatewayError(task[p].raised) /\ ~is_retryable_error(task[p].raised)

C17_Witness ==
    \E p \in DOMAIN task :
        /\ task[p].op = "get_job"
        /\ task[p].pc = "failed"
        /\ task[p].attempt = 2
        /\ task[p].response.status_code = 401
        /\ task[p].raised = GatewayAuthError(MsgUnknown, 401)

\* C18: the attempts of a transaction come one after the other with one
\* backoff wait between two of them: before attempt i there were i waits, a
\* wait follows a failed attempt i only and lasts min(base * 2^i, max_delay)
\* give or take the jitter, a request is sent within a transaction only when
\* a wait ends, and no wait comes after a success or after the error raised.
C18_State ==
    \A p \in DOMAIN task :
        /\ task[p].pc \in {"inflight", "done", "failed"} =>
                /\ task[p].waits = task[p].attempt
                /\ task[p].delay = 0
        /\ task[p].pc \in {"inflight", "done", "wait"} =>
                task[p].attempts = task[p].attempt + 1
        /\ task[p].pc = "wait" =>
                LET d == Min(task[p].options.base_delay * Pow2(task[p].attempt),
                             task[p].options.max_delay)
                IN  /\ task[p].waits = task[p].attempt + 1
                    /\ task[p].last_error # NoError
                    /\ 8 * task[p].delay >= 7 * d
                    /\ 8 * task[p].delay <= 9 * d
                    /\ (~task[p].options.jitter => task[p].delay = d)
        /\ task[p].op \in PipelineOps => Len(wire[p]) = task[p].attempts

\* C18 (step): an attempt other than attempt 0 starts from the wait that
\* followed the attempt before it.
C18_Step ==
    \A p \in DOMAIN task :
        (task'[p].pc = "inflight" /\ task'[p].attempt > 0 /\ task'[p] # task[p]) =>
            /\ task[p].pc = "wait"
            /\ task[p].waits = task'[p].attempt
            /\ task'[p].attempt = task[p].attempt + 1
            /\ task'[p].waits = task[p].waits

C18_SequentialAttempts == []C18_State /\ [][C18_Step]_vars

C18_Witness ==
    \E p \in DOMAIN task :
        /\ task[p].pc = "wait"
        /\ task[p].attempt = 2
        /\ task[p].waits = 3
        /\ task[p].delay > 3 * DefaultBaseDelay

\* the tokens _get_token_age cannot decode
Undecodable == {TokOpaque, TokNotJson, TokNoIat, TokIatText}

\* C20: proxy() takes a token it cannot decode (fewer than two parts, a
\* payload that is no base64 JSON, no usable iat) to be of age zero: it raises
\* no Token error for it and sends the proxy request carrying that token.
C20_UndecodableTokenIsFresh ==
    \A p \in DOMAIN task :
        (task[p].op = "proxy" /\ (task[p].token \in Undecodable
                                   \/ task[p].supplied \in Undecodable)) =>
            /\ task[p].token \in Undecodable
            /\ task[p].raised.kind # "GatewayTokenError"
            /\ task[p].path = "/api/proxy-request"
            /\ Len(wire[p]) >= 1
            /\ \A i \in DOMAIN wire[p] :
                /\ wire[p][i].path = "/api/proxy-request"
                /\ wire[p][i].body.agent_token = task[p].token

C20_Witness ==
    \E p \in DOMAIN task :
        /\ task[p].op = "proxy"
        /\ task[p].supplied = TokNotJson
        /\ task[p].pc = "done"
        /\ wire[p][1].body.agent_token = TokNotJson

\* C19: with jitter on, the delay for attempt index i is never negative and
\* lies between 0.75 d and 1.25 d, d = min(base_delay * 2^i, max_delay), and
\* both ends of that interval are reached: random() = 0 gives 0.75 d and the
\* largest random() sampled gives 1.25 d less one sampling step (d / (2 RandomDen)).
C19_DelayWithJitter ==
    (fn_in.fn = "calculate_delay" /\ fn_in.options.jitter) =>
        \A i \in DOMAIN fn_out :
            LET d == Min(fn_in.options.base_delay * Pow2(i - 1), fn_in.options.max_delay)
            IN  /\ fn_out[i] >= 0
                /\ 4 * fn_out[i] >= 3 * d
                /\ 4 * fn_out[i] <= 5 * d
                /\ \E rnd \in 0..(RandomDen - 1) :
                        4 * calculate_delay(i - 1, fn_in.options, rnd) = 3 * d
                /\ \E rnd \in 0..(RandomDen - 1) :
                        4 * RandomDen * calculate_delay(i - 1, fn_in.options, rnd)
                            >= 5 * d * RandomDen - 2 * d

(***************************************************************************)
(* utils/idempotency.py: generate_idempotency_key_from_data applied to two *)
(* calls drawn from IdemTools, IdemActions and IdemParams, the clock free  *)
(* to advance between them; fn_out lists the keys returned.                *)
(*                                                                         *)
(* A Python value is a record: t its type, v its text (the digits of a     *)
(* number, "1" / "0" for True / False, the characters of a str), items the *)
(* (key, value) pairs of a dict in insertion order.                        *)
(***************************************************************************)
PyInt(v) == [t |-> "int", v |-> v, items |-> <<>>]
PyFloat(v) == [t |-> "float", v |-> v, items |-> <<>>]
PyBool(v) == [t |-> "bool", v |-> v, items |-> <<>>]
PyStr(v) == [t |-> "str", v |-> v, items |-> <<>>]
PyDict(items) == [t |-> "dict", v |-> <<>>, items |-> items]

\* the characters json.dumps produces here, in code-point order within each group
Alphabet ==
    <<" ", "\"", ",", ".">> \o DigitChars \o <<":", "_">> \o LowerChars \o <<"{", "}">>
ord(c) == CHOOSE k \in DOMAIN Alphabet : Alphabet[k] = c

\* a < b for str
RECURSIVE StrLess(_, _)
StrLess(a, b) ==
    IF Len(b) = 0 THEN FALSE
    ELSE IF Len(a) = 0 THEN TRUE
    ELSE IF a[1] # b[1] THEN ord(a[1]) < ord(b[1])
    ELSE StrLess(Tail(a), Tail(b))

\* s without its i-th element
Without(s, i) == SubSeq(s, 1, i - 1) \o SubSeq(s, i + 1, Len(s))

\* json.dumps(value, sort_keys=True)
RECURSIVE json_dumps(_)
RECURSIVE json_dumps_items(_)
json_dumps_items(items) ==
    IF Len(items) = 0 THEN <<>>
    ELSE
        LET i == CHOOSE k \in DOMAIN items :
                    \A j \in DOMAIN items : j = k \/ StrLess(items[k][1], items[j][1])
            rest == Without(items, i)
        IN  <<"\"">> \o items[i][1] \o <<"\"", ":", " ">> \o json_dumps(items[i][2])
                \o (IF Len(rest) = 0 THEN <<>> ELSE <<",", " ">> \o json_dumps_items(rest))
json_dumps(value) ==
    CASE value.t = "int" -> value.v
      [] value.t = "float" -> value.v \o <<".", "0">>
      [] value.t = "bool" -> IF value.v = <<"1">> THEN <<"t","r","u","e">>
                                                 ELSE <<"f","a","l","s","e">>
      [] value.t = "str" -> <<"\"">> \o value.v \o <<"\"">>
      [] value.t = "dict" -> <<"{">> \o json_dumps_items(value.items) \o <<"}">>

\* the position-weighted sum of the characters text[lo..hi]
RECURSIVE WeightedSum(_, _, _)
WeightedSum(text, lo, hi) ==
    IF lo > hi THEN 0
    ELSE IF lo = hi THEN lo * ord(text[lo])
    ELSE LET mid == (lo + hi) \div 2
         IN  WeightedSum(text, lo, mid) + WeightedSum(text, mid + 1, hi)

\* hashlib.sha256(text.encode()).hexdigest()[:16], as a digest of the
\* characters of text and their positions (16 bits here)
hexdigest16(text) == (7 + WeightedSum(text, 1, Len(text))) % 65536

generate_idempotency_key_from_data(tool, action, params) ==
    LET data_string ==
            json_dumps(PyDict(<< <<<<"t","o","o","l">>, PyStr(tool)>>,
                                 <<<<"a","c","t","i","o","n">>, PyStr(action)>>,
                                 <<<<"p","a","r","a","m","s">>, params>> >>))
    IN  [prefix |-> "idemp_", hexdigest |-> hexdigest16(data_string)]

IdemTools == <<<<"t","1">>, <<"t","2">>>>
IdemActions == <<<<"g","e","t">>>>
IdemParams ==
    << PyDict(<<>>),
       PyDict(<< <<<<"q">>, PyStr(<<"x">>)>>, <<<<"n">>, PyInt(<<"1">>)>> >>),
       PyDict(<< <<<<"n">>, PyInt(<<"1">>)>>, <<<<"q">>, PyStr(<<"x">>)>> >>),
       PyDict(<< <<<<"n">>, PyFloat(<<"1">>)>>, <<<<"q">>, PyStr(<<"x">>)>> >>),
       PyDict(<< <<<<"q">>, PyStr(<<"x">>)>>, <<<<"n">>, PyBool(<<"1">>)>> >>),
       PyDict(<< <<<<"q">>, PyStr(<<"y">>)>>, <<<<"n">>, PyInt(<<"1">>)>> >>),
       PyDict(<< <<<<"k">>, PyDict(<< <<<<"a">>, PyInt(<<"1">>)>>,
                                      <<<<"b">>, PyInt(<<"2">>)>> >>)>> >>),
       PyDict(<< <<<<"k">>, PyDict(<< <<<<"b">>, PyInt(<<"2">>)>>,
                                      <<<<"a">>, PyInt(<<"1">>)>> >>)>> >>) >>

IdemCall(i, j, k) ==
    [tool |-> IdemTools[i], action |-> IdemActions[j], params |-> IdemParams[k]]

InitIdem ==
    /\ now = NowStart
    /\ current_intent = ""
    /\ task = [p \in {1} |-> IdleTask]
    /\ wire = [p \in {1} |-> <<>>]
    /\ \E i1, i2 \in DOMAIN IdemTools, j1, j2 \in DOMAIN IdemActions,
          k1, k2 \in DOMAIN IdemParams :
            fn_in = [fn |-> "generate_idempotency_key_from_data",
                     calls |-> <<IdemCall(i1, j1, k1), IdemCall(i2, j2, k2)>>]
    /\ fn_out = <<>>

Idem ==
    /\ Len(fn_out) < Len(fn_in.calls)
    /\ LET call == fn_in.calls[Len(fn_out) + 1]
       IN  fn_out' = Append(fn_out, generate_idempotency_key_from_data(
                                        call.tool, call.action, call.params))
    /\ UNCHANGED <<now, current_intent, task, wire, fn_in>>

SpecIdem == InitIdem /\ [][Idem \/ Tick]_vars

\* Python's == on the values above: int, float and bool compare by number,
\* str by characters, dict by keys and values whatever the insertion order
RECURSIVE PyEq(_, _)
PyEq(a, b) ==
    CASE a.t = "dict" /\ b.t = "dict" ->
            /\ Len(a.items) = Len(b.items)
            /\ \A i \in DOMAIN a.items : \E j \in DOMAIN b.items :
                    /\ a.items[i][1] = b.items[j][1]
                    /\ PyEq(a.items[i][2], b.items[j][2])
      [] a.t = "str" /\ b.t = "str" -> a.v = b.v
      [] a.t \in {"int", "float", "bool"} /\ b.t \in {"int", "float", "bool"} -> a.v = b.v
      [] OTHER -> FALSE

\* C12: two calls of generate_idempotency_key_from_data with the same tool,
\* the same action and params that compare equal (==) return the same key,
\* whatever the order of the keys in params and whenever the calls are made.
C12_KeyIsFunctionOfContent ==
    ( /\ fn_in.fn = "generate_idempotency_key_from_data"
      /\ Len(fn_out) = 2
      /\ fn_in.calls[1].tool = fn_in.calls[2].tool
      /\ fn_in.calls[1].action = fn_in.calls[2].action
      /\ PyEq(fn_in.calls[1].params, fn_in.calls[2].params) )
    => fn_out[1] = fn_out[2]

\* == between values of the same types only (1 and 1.0 and True differ)
RECURSIVE PyEqTyped(_, _)
PyEqTyped(a, b) ==
    CASE a.t = "dict" /\ b.t = "dict" ->
            /\ Len(a.items) = Len(b.items)
            /\ \A i \in DOMAIN a.items : \E j \in DOMAIN b.items :
                    /\ a.items[i][1] = b.items[j][1]
                    /\ PyEqTyped(a.items[i][2], b.items[j][2])
      [] a.t # "dict" /\ b.t # "dict" -> a.t = b.t /\ a.v = b.v
      [] OTHER -> FALSE

\* Two calls with the same tool, the same action and params equal value for
\* value and type for type return the same key, whatever the order of the
\* keys at any depth and whenever the calls are made.
Idem_SameTypesSameKey ==
    ( /\ fn_in.fn = "generate_idempotency_key_from_data"
      /\ Len(fn_out) = 2
      /\ fn_in.calls[1].tool = fn_in.calls[2].tool
      /\ fn_in.calls[1].action = fn_in.calls[2].action
      /\ PyEqTyped(fn_in.calls[1].params, fn_in.calls[2].params) )
    => fn_out[1] = fn_out[2]

Idem_Reordered ==
    /\ fn_in.fn = "generate_idempotency_key_from_data"
    /\ Len(fn_out) = 2
    /\ fn_in.calls[1].params = IdemParams[7]
    /\ fn_in.calls[2].params = IdemParams[8]
    /\ fn_out[1] = fn_out[2]
    /\ now > NowStart

\* C14 (step): a step of one task's transaction leaves every other task's
\* transaction and requests as they were.
C14_Step ==
    \A p, q \in DOMAIN task :
        (p # q /\ task'[p] # task[p]) => (task'[q] = task[q] /\ wire'[q] = wire[q])

\* C14 (state): while a task waits or has an attempt in flight, any other
\* task can take its next step (start a call, have its sleep return, have its
\* attempt answered); a task's attempts, error and outcome are those its own
\* requests and their answers give.
C14_State ==
    \A p, q \in DOMAIN task :
        /\ (p # q /\ task[p].pc \in {"wait", "inflight"}) =>
                /\ (task[q].pc = "idle" => ENABLED get_job(q, 1))
                /\ (task[q].pc = "wait" => ENABLED Wake(q))
                /\ (task[q].pc = "inflight" =>
                        /\ ENABLED (TokenResponse(q, TokFresh, 1) \/ ResponseSuccess(q))
                        /\ \A resp \in ConcurrentAnswers : ENABLED ResponseError(q, resp, 0))
        /\ Len(wire[p]) = task[p].attempts
        /\ \A i \in DOMAIN wire[p] :
                /\ wire[p][i].attempt = i - 1
                /\ wire[p][i].headers.X_Correlation_Id = task[p].correlation_id
        /\ (Answered(p) =>
                /\ task[p].last_error = _request(task[p].response)
                /\ task[p].waits = IF task[p].pc = "wait" THEN Len(wire[p])
                                                        ELSE Len(wire[p]) - 1
                /\ (task[p].pc = "wait" <=>
                        (task[p].response.fault # None /\ Len(wire[p]) <= DefaultMaxRetries)))
        /\ (task[p].pc = "done" => task[p].response = Ok200)

\* C14: transactions of concurrent tasks on one client do not touch each
\* other: while one waits out its backoff or has an attempt in flight the
\* others can send, retry and finish, and the attempts, retry decisions and
\* outcome of each depend on the answers to its own attempts only.
C14_TransactionsIndependent == [][C14_Step]_vars /\ []C14_State

C14_Witness ==
    /\ DOMAIN task = ConcurrentTasks
    /\ task[1].pc = "wait"
    /\ task[1].attempt = 0
    /\ task[2].pc = "failed"
    /\ task[2].attempts = DefaultMaxRetries + 1
    /\ task[2].raised.code = "NETWORK_ERROR"

\* C15 (step): a proxy() call moves idle -> (token check) -> in flight or
\* failed, in flight -> done, failed, waiting, or in flight again (the
\* token-issuance transaction returned and the proxy transaction starts),
\* waiting -> in flight; done and failed are left by no step.
C15_Step ==
    \A p \in DOMAIN task :
        (task'[p].op = "proxy" /\ task'[p] # task[p]) =>
            CASE task[p].pc = "idle" ->
                    \/ task'[p].pc = "inflight" /\ Len(wire'[p]) = 1
                    \/ /\ task'[p].pc = "failed"
                       /\ task'[p].raised.kind = "GatewayTokenError"
                       /\ wire'[p] = <<>>
              [] task[p].pc = "inflight" ->
                    \/ task'[p].pc \in {"done", "wait", "failed"} /\ wire'[p] = wire[p]
                    \/ /\ task'[p].pc = "inflight"
                       /\ task[p].path = "/api/generate-token"
                       /\ task'[p].path = "/api/proxy-request"
                       /\ task'[p].attempt = 0
              [] task[p].pc = "wait" ->
                    task'[p].pc = "inflight" /\ task'[p].attempt = task[p].attempt + 1
              [] OTHER -> FALSE

\* C15: a proxy() call follows that state machine and, every attempt being
\* answered and every backoff wait ending, reaches done (Success) or failed
\* (Failed), after which it takes no step.
C15_ProxyTerminates ==
    /\ [][C15_Step]_vars
    /\ \A p \in ConcurrentTasks :
            (p \in DOMAIN task /\ task[p].op = "proxy")
                ~> (task[p].pc \in {"done", "failed"})

C15_Witness ==
    \E p \in DOMAIN task :
        /\ task[p].op = "proxy"
        /\ task[p].supplied = NoToken
        /\ task[p].pc = "done"
        /\ task[p].attempts = 3
        /\ task[p].path = "/api/proxy-request"

\* C21 (step): a step that changes the current-intent label changes nothing
\* else and sends nothing; a step of a transaction leaves the label as it
\* was; a proxy transaction that starts takes the label into its body as
\* intent when the label is non-empty and leaves intent out when it is empty.
C21_Step ==
    /\ current_intent' # current_intent =>
            (task' = task /\ wire' = wire /\ now' = now)
    /\ (task' # task \/ wire' # wire) => current_intent' = current_intent
    /\ \A p \in DOMAIN task :
            (task'[p].call # task[p].call /\ task'[p].path = "/api/proxy-request") =>
                /\ wire'[p][1].body = task'[p].body
                /\ (current_intent # "" => task'[p].body.intent = current_intent)
                /\ (current_intent = "" => task'[p].body.intent = None)

\* C21 (state): no request carries an empty intent, and only proxy requests
\* carry one.
C21_State ==
    \A p \in DOMAIN task :
        \A i \in DOMAIN wire[p] :
            /\ wire[p][i].body.intent # ""
            /\ wire[p][i].body.intent \in {None} \cup Intents
            /\ (wire[p][i].path # "/api/proxy-request" => wire[p][i].body.intent = None)

\* C21: set_intent changes the label only and sends no request; no
\* transaction, whatever its course, changes the label; a proxy request built
\* under a non-empty label carries it as intent, one built under the empty
\* label has no intent.
C21_IntentFrame == [][C21_Step]_vars /\ []C21_State

C21_Witness ==
    \E p \in DOMAIN task :
        /\ current_intent = ""
        /\ task[p].op = "proxy"
        /\ task[p].pc = "failed"
        /\ task[p].attempts = DefaultMaxRetries + 1
        /\ wire[p][1].path = "/api/proxy-request"
        /\ wire[p][1].body.intent = "lead_gen"

\* C22: every request of a transaction has the method, the URL, the body and
\* the headers of its first request, whatever set_intent calls and other
\* tasks' operations ran between its attempts.
C22_RequestFixedOnceBuilt ==
    \A p \in DOMAIN task :
        \A i \in DOMAIN wire[p] :
            /\ wire[p][i].method = wire[p][1].method
            /\ wire[p][i].path = wire[p][1].path
            /\ wire[p][i].body = wire[p][1].body
            /\ wire[p][i].headers = wire[p][1].headers
            /\ wire[p][i].attempt = i - 1

C22_Witness ==
    /\ DOMAIN task = ConcurrentTasks
    /\ current_intent = ""
    /\ Len(wire[1]) = 3
    /\ wire[1][3].path = "/api/proxy-request"
    /\ wire[1][3].body.intent = "lead_gen"
    /\ task[2].op = "get_job"
    /\ task[2].pc = "wait"

\* C23: the intent a proxy() call sends is the label the client had when
\* proxy() was called (none when that label was empty), also when set_intent
\* runs while the call is acquiring its token or retrying.
C23_IntentAsOfCall ==
    \A p \in DOMAIN task :
        task[p].op = "proxy" =>
            \A i \in DOMAIN wire[p] :
                wire[p][i].path = "/api/proxy-request" =>
                    wire[p][i].body.intent =
                        IF task[p].intent_at_call # "" THEN task[p].intent_at_call
                                                       ELSE None

====
